---- MODULE Spec2Model ----
(***************************************************************************)
(* The dates-driven digest page (src/app/page.tsx) as a state machine.     *)
(*                                                                         *)
(* State: the component's useState cells, the requests in flight, and     *)
(* whether a render has been committed whose passive effects have not run  *)
(* yet.  One action per event handler, promise continuation and effect     *)
(* flush.  React flushes the pending passive effects of a commit before it *)
(* handles the next event or state update, so every handler below waits    *)
(* for RunEffects.                                                         *)
(*                                                                         *)
(* Strings that the code inspects are modelled by their content:           *)
(*   - a date string is a sequence of dash-separated fields, each field a  *)
(*     sequence of character codes (0..9 are the digits, larger codes are  *)
(*     other characters);                                                  *)
(*   - a message is a sequence of words.                                   *)
(* A Date object is its UTC day number (time value / 86400000).            *)
(* A digest payload keeps the bucket sequence and the key order of each    *)
(* bucket; the articles are only rendered and are left out.                *)
(*                                                                         *)
(* The proxy route handler (src/unnamed/part_002, and part_001 with the    *)
(* same behaviour for the values that are thrown) is the variable route,   *)
(* with its own specification RouteSpec.  PhasedSpec splits a response of  *)
(* the page's requests into the arrival of the headers, where the code     *)
(* clears its timeout, and the end of the body read.  SettleSpec is the    *)
(* page when every digest request returns successfully, with the fairness  *)
(* of the effects and of the responses.                                    *)
(*                                                                         *)
(* The page that starts at yesterday (src/unnamed/part_000) is the         *)
(* variable variant with the specification VariantSpec: each unresolved    *)
(* request keeps the values of the render that sent it.  The Vue component *)
(* (src/App.vue) is the variable app with the specification AppSpec.       *)
(***************************************************************************)
EXTENDS Integers, Sequences, FiniteSets, TLC

VARIABLES
  mounted,         \* the mount effects have run
  availableDates,  \* useState<string[]>([])
  loadingDates,    \* useState(true)
  datesError,      \* useState<string | null>(null)
  digest,          \* useState<DigestDataType | null>(null)
  loadingDigest,   \* useState(false)
  digestError,     \* useState<string | null>(null)
  currentDate,     \* useState<Date | null>(null)
  activeTab,       \* useState("ID")
  digestCache,     \* useState<Record<string, DigestDataType>>({})
  direction,       \* useState(0)
  renderPending,   \* a commit whose passive effects have not been flushed
  datesInFlight,   \* number of unresolved requests to the dates endpoint
  digestInFlight,  \* date string -> number of unresolved /api/digest requests
  requested,       \* history: date strings a digest request was ever sent for
  last,            \* history: the handler that made the last step
  datesReading,    \* dates requests whose headers arrived, body unread
  digestReading,   \* date string -> digest requests in that phase
  route,           \* the proxy route: invocations, upstream requests, response
  variant,         \* the page that starts at yesterday (src/unnamed/part_000)
  app              \* the Vue component (src/App.vue)

vars == <<mounted, availableDates, loadingDates, datesError, digest,
          loadingDigest, digestError, currentDate, activeTab, digestCache,
          direction, renderPending, datesInFlight, digestInFlight,
          requested, last, datesReading, digestReading, route, variant, app>>

\* The page's requests between headers and body, and the proxy route.
phaseVars == <<datesReading, digestReading>>

-----------------------------------------------------------------------------
(* Bounds *)

\* Most digest requests unresolved at one time.
MaxInFlight == 3

\* Most requests of the page that starts at yesterday unresolved at one
\* time, and the days it goes back from yesterday.
MaxPending == 2
MaxDaysBack == 2

\* Most buckets of a digest given to getAvailableCountries on its own.
MaxBuckets == 2

\* Most invocations of the proxy route.
MaxInvocations == 3

-----------------------------------------------------------------------------
(* Strings *)

\* The decimal digits of n, most significant first, at least w of them
\* (what `${n}` gives for w = 1, and zero padding for larger w).
RECURSIVE Digits(_, _)
Digits(n, w) ==
  IF n < 10 /\ w <= 1 THEN <<n>>
  ELSE Append(Digits(n \div 10, w - 1), n % 10)

\* Number(field) for a field of digits.
RECURSIVE ToNumber(_)
ToNumber(f) ==
  IF f = <<>> THEN 0
  ELSE 10 * ToNumber(SubSeq(f, 1, Len(f) - 1)) + f[Len(f)]

\* ('0' + n).slice(-2)
Slice2(f) == SubSeq(f, Len(f) - 1, Len(f))

\* The string "YYYY-MM-DD" written with the given numbers.
DateStr(y, m, d) == <<Digits(y, 4), Digits(m, 2), Digits(d, 2)>>

IsDigit(c) == c \in 0..9

\* /^\d{4}-\d{2}-\d{2}$/.test(s)
MatchesDatePattern(s) ==
  /\ Len(s) = 3
  /\ Len(s[1]) = 4 /\ Len(s[2]) = 2 /\ Len(s[3]) = 2
  /\ \A i \in 1..3 : \A j \in 1..Len(s[i]) : IsDigit(s[i][j])

\* The characters of a string in order, the dashes as code 45.
RECURSIVE Chars(_)
Chars(s) ==
  IF s = <<>> THEN <<>>
  ELSE IF Len(s) = 1 THEN s[1]
  ELSE s[1] \o <<45>> \o Chars(Tail(s))

\* a.localeCompare(b) < 0 for strings of digits and dashes.
RECURSIVE CharsLess(_, _)
CharsLess(a, b) ==
  IF b = <<>> THEN FALSE
  ELSE IF a = <<>> THEN TRUE
  ELSE IF a[1] # b[1] THEN a[1] < b[1]
  ELSE CharsLess(Tail(a), Tail(b))

LocaleLess(a, b) == CharsLess(Chars(a), Chars(b))

\* dates.sort((a, b) => a.localeCompare(b)): stable, ascending.
RECURSIVE InsertSorted(_, _)
InsertSorted(x, s) ==
  IF s = <<>> THEN <<x>>
  ELSE IF LocaleLess(x, s[1]) THEN <<x>> \o s
  ELSE <<s[1]>> \o InsertSorted(x, Tail(s))

RECURSIVE SortDates(_)
SortDates(s) ==
  IF s = <<>> THEN <<>>
  ELSE InsertSorted(s[Len(s)], SortDates(SubSeq(s, 1, Len(s) - 1)))

\* Array.prototype.indexOf, 1-based; 0 stands for -1.
IndexOf(s, x) ==
  IF \E i \in 1..Len(s) : s[i] = x
  THEN CHOOSE i \in 1..Len(s) : s[i] = x /\ \A j \in 1..(i - 1) : s[j] # x
  ELSE 0

\* String.prototype.includes on messages, by whole words.
Includes(msg, needle) ==
  \E i \in 1..(Len(msg) - Len(needle) + 1) :
    SubSeq(msg, i, i + Len(needle) - 1) = needle

-----------------------------------------------------------------------------
(* Dates (ECMAScript time values, in days) *)

IsLeap(y) == (y % 4 = 0 /\ y % 100 # 0) \/ y % 400 = 0

DayFromYear(y) ==
  365 * (y - 1970) + ((y - 1969) \div 4) - ((y - 1901) \div 100)
    + ((y - 1601) \div 400)

\* Days of a common year before month index mi (0 = January).
CumulativeDays == <<0, 31, 59, 90, 120, 151, 181, 212, 243, 273, 304, 334, 365>>

\* Days of year y before month index mi; mi = 12 gives the year's length.
DaysBeforeMonth(y, mi) ==
  CumulativeDays[mi + 1] + (IF mi >= 2 /\ IsLeap(y) THEN 1 ELSE 0)

\* Date.UTC(year, monthIndex, day) in days: years 0..99 mean 1900..1999,
\* month and day overflow carry.
DateUTC(year, monthIndex, day) ==
  LET yr == IF year \in 0..99 THEN 1900 + year ELSE year
      ym == yr + (monthIndex \div 12)
      mn == monthIndex % 12
  IN DayFromYear(ym) + DaysBeforeMonth(ym, mn) + day - 1

\* The year whose days include t; it lies between the estimates that
\* years of 366 and of 365 days give.
YearFromTime(t) ==
  CHOOSE y \in (1969 + (t \div 366))..(1971 + (t \div 365)) :
    DayFromYear(y) <= t /\ t < DayFromYear(y + 1)

\* getUTCMonth() of the day t of year y.
MonthFromTime(t, y) ==
  LET n == t - DayFromYear(y)
  IN CHOOSE mi \in 0..11 :
       DaysBeforeMonth(y, mi) <= n /\ n < DaysBeforeMonth(y, mi + 1)

\* getUTCDate() of the day t of year y, month index mi.
DateFromTime(t, y, mi) == t - DayFromYear(y) - DaysBeforeMonth(y, mi) + 1

\* currentDate = null
NoDate == <<>>

formatDateForAPI(date) ==
  LET y     == YearFromTime(date[1])
      mi    == MonthFromTime(date[1], y)
      year  == Digits(y, 1)
      month == Slice2(<<0>> \o Digits(mi + 1, 1))
      day   == Slice2(<<0>> \o Digits(DateFromTime(date[1], y, mi), 1))
  IN <<year, month, day>>

parseAPIDateStringToUTCDate(dateString) ==
  LET year  == ToNumber(dateString[1])
      month == ToNumber(dateString[2])
      day   == ToNumber(dateString[3])
  IN <<DateUTC(year, month - 1, day)>>

-----------------------------------------------------------------------------
(* JSON values and thrown values *)

\* A parsed JSON body: null, an object (with its "error" member, <<>> when
\* it has none or an empty one), a list of strings, or a digest
\* [ [ bucket, ... ] ], each bucket given by the order of its keys.
JNull == [kind |-> "null", error |-> <<>>, items |-> <<>>, buckets |-> <<>>]
JObject(err) == [kind |-> "object", error |-> err, items |-> <<>>, buckets |-> <<>>]
JList(strs) == [kind |-> "list", error |-> <<>>, items |-> strs, buckets |-> <<>>]
JDigest(bs) == [kind |-> "digest", error |-> <<>>, items |-> <<>>, buckets |-> bs]

\* A body that response.json() rejects, and one it parses to j.
Unparseable == [parses |-> FALSE, json |-> JNull]
Body(j) == [parses |-> TRUE, json |-> j]

\* JavaScript truthiness of a JSON value of these kinds.
Truthy(j) == j.kind # "null"

\* A thrown Error (or subclass) and the string passed to controller.abort().
ErrorObj(name, message) == [isError |-> TRUE, name |-> name, message |-> message]
AbortReason == [isError |-> FALSE, name |-> "", message |-> <<"timeout">>]

\* What fetch() rejects with when the signal is aborted with a reason:
\* the reason itself (Fetch standard), or an AbortError DOMException
\* (engines that predate abort reasons).
AbortRejections ==
  { AbortReason,
    ErrorObj("AbortError", <<"The", "user", "aborted", "a", "request.">>) }

\* Messages of the TypeError that fetch() rejects with on a transport failure.
NetworkFailureMessages ==
  { <<"Failed", "to", "fetch">>, <<"Load", "failed">> }

\* err.message of the TypeError raised by reading .error of null.
NullPropertyMessage ==
  <<"Cannot", "read", "properties", "of", "null", "(reading", "'error')">>

\* err.message of the SyntaxError raised by response.json().
JsonSyntaxMessage == <<"Unexpected", "token", "<", "in", "JSON">>

\* No message (null).
Null == <<>>

-----------------------------------------------------------------------------
(* Inputs *)

\* Date strings the dates endpoint is modelled to return.  D0 matches the
\* pattern but is not a calendar date.
D0 == DateStr(2024, 4, 31)
D1 == DateStr(2024, 5, 1)
D2 == DateStr(2024, 5, 2)
D3 == DateStr(2024, 5, 3)
BadDate == <<<<11, 10, 13>>, <<13, 10, 29, 14>>>>

\* Lists the dates endpoint is modelled to answer with: none, three dates
\* out of order, repeated dates, a string that is no calendar date, and a
\* string that does not match the pattern.
DateLists ==
  { <<>>,
    <<D3, D1, D2>>,
    <<D2, D1, D2, D1>>,
    <<D2, D0>>,
    <<D1, BadDate>> }

\* Every string formatDateForAPI can produce for a current date.
DateKeys == {D1, D2, D3}

\* Category codes.
Categories == {"ID", "US"}

\* Digest bodies the digest endpoint is modelled to answer with.
DigestBodies ==
  { JNull,
    JList(<<>>),
    JDigest(<<<<"US">>, <<"US", "ID">>>>),
    JDigest(<<<<"US">>>>) }

\* How a request can end: the client timeout aborts it, the transport
\* fails, or a response arrives.
Aborted(r) ==
  [kind |-> "abort", rejection |-> r, ok |-> FALSE, status |-> "",
   statusText |-> "", body |-> Unparseable]
NetworkFailed(msg) ==
  [kind |-> "network", rejection |-> ErrorObj("TypeError", msg), ok |-> FALSE,
   status |-> "", statusText |-> "", body |-> Unparseable]
Responded(ok, status, statusText, body) ==
  [kind |-> "response", rejection |-> AbortReason, ok |-> ok,
   status |-> status, statusText |-> statusText, body |-> body]

FailureOutcomes ==
  {Aborted(r) : r \in AbortRejections}
    \cup {NetworkFailed(m) : m \in NetworkFailureMessages}
    \cup {Responded(FALSE, "503", "Service Unavailable", b) :
            b \in { Unparseable, Body(JNull),
                    Body(JObject(<<"External", "API", "returned", "503:",
                                   "Service Unavailable">>)) }}
    \cup {Responded(TRUE, "200", "OK", Unparseable)}

DigestOutcomes ==
  FailureOutcomes \cup {Responded(TRUE, "200", "OK", Body(j)) : j \in DigestBodies}

DatesOutcomes ==
  FailureOutcomes
    \cup {Responded(TRUE, "200", "OK", Body(JList(l))) : l \in DateLists}
    \cup {Responded(TRUE, "200", "OK", Body(JObject(<<>>)))}

-----------------------------------------------------------------------------
(* Pure parts of the handlers *)

\* A scan that pushes every key, seen before or not.
PushKeysRepeated(countries, keys) == countries \o keys

\* Keys of the buckets in first-seen order.
RECURSIVE PushKeys(_, _)
PushKeys(countries, keys) ==
  IF keys = <<>> THEN countries
  ELSE PushKeys(IF \E i \in 1..Len(countries) : countries[i] = keys[1]
                THEN countries ELSE Append(countries, keys[1]),
                Tail(keys))

RECURSIVE ScanBuckets(_, _)
ScanBuckets(countries, bs) ==
  IF bs = <<>> THEN countries
  ELSE ScanBuckets(PushKeys(countries, bs[1]), Tail(bs))

getAvailableCountries(dg) ==
  IF dg.kind # "digest" THEN <<>> ELSE ScanBuckets(<<>>, dg.buckets)

isPreviousDayNavigationDisabled(cur, dates) ==
  IF cur = NoDate \/ Len(dates) = 0 THEN TRUE
  ELSE formatDateForAPI(cur) = dates[1]

isNextDayNavigationDisabled(cur, dates) ==
  IF cur = NoDate \/ Len(dates) = 0 THEN TRUE
  ELSE formatDateForAPI(cur) = dates[Len(dates)]

\* The try block of fetchDigest / fetchAvailableDates up to the parsed
\* body: what it throws, or the data it goes on with.
TryFetch(o, what) ==
  IF o.kind # "response" THEN [threw |-> TRUE, err |-> o.rejection, data |-> JNull]
  ELSE IF ~o.ok THEN
    LET generic == <<"Failed", "to", "fetch", what, o.status, o.statusText>>
    IN IF o.body.parses /\ o.body.json.kind = "null"
       THEN [threw |-> TRUE, err |-> ErrorObj("TypeError", NullPropertyMessage),
             data |-> JNull]
       ELSE LET errorData == IF o.body.parses THEN o.body.json ELSE JObject(<<>>)
            IN [threw |-> TRUE,
                err |-> ErrorObj("Error", IF errorData.error # <<>>
                                          THEN errorData.error ELSE generic),
                data |-> JNull]
  ELSE IF ~o.body.parses
    THEN [threw |-> TRUE, err |-> ErrorObj("SyntaxError", JsonSyntaxMessage),
          data |-> JNull]
  ELSE [threw |-> FALSE, err |-> AbortReason, data |-> o.body.json]

\* controller.signal.aborted && controller.signal.reason === "timeout"
AbortedByTimeout(o) == o.kind = "abort"

TimedOutMessage ==
  <<"Request", "timed", "out.", "Please", "check", "your", "internet",
    "connection", "and", "try", "again.">>
NetworkErrorMessage ==
  <<"Network", "error.", "Please", "check", "your", "internet", "connection.">>
UnexpectedMessage ==
  <<"An", "unexpected", "error", "occurred.", "Please", "try", "again.">>
LoadFailedMessage(m) == <<"Failed", "to", "load", "digest:">> \o m

\* The catch block of fetchDigest.
DigestErrorMessage(err, o) ==
  IF err.isError THEN
    IF err.name = "AbortError" \/ AbortedByTimeout(o) THEN TimedOutMessage
    ELSE IF Includes(err.message, <<"Failed", "to", "fetch">>) THEN NetworkErrorMessage
    ELSE LoadFailedMessage(err.message)
  ELSE UnexpectedMessage

DatesTimedOutMessage ==
  <<"Request", "for", "available", "dates", "timed", "out.">>
DatesUnexpectedMessage ==
  <<"An", "unexpected", "error", "occurred", "while", "fetching", "dates.">>
DatesLoadFailedMessage(m) == <<"Failed", "to", "load", "available", "dates:">> \o m
InvalidFormatMessage ==
  <<"Invalid", "date", "format", "received", "from", "API.">>
NoDatesMessage == <<"No", "dates", "available", "from", "the", "source.">>

\* The catch block of fetchAvailableDates.
DatesErrorMessage(err, o) ==
  IF err.isError THEN
    IF err.name = "AbortError" \/ AbortedByTimeout(o) THEN DatesTimedOutMessage
    ELSE DatesLoadFailedMessage(err.message)
  ELSE DatesUnexpectedMessage

\* Array.isArray(dates) && dates.every(d => typeof d === 'string' && re.test(d))
IsDateArray(j) ==
  j.kind = "list" /\ \A i \in 1..Len(j.items) : MatchesDatePattern(j.items[i])

-----------------------------------------------------------------------------
(* State *)

\* The useState cells; a render is committed when a setter changes one.
ReactState ==
  <<availableDates, loadingDates, datesError, digest, loadingDigest,
    digestError, currentDate, activeTab, digestCache, direction>>

RECURSIVE SumOver(_, _)
SumOver(f, S) ==
  IF S = {} THEN 0
  ELSE LET k == CHOOSE x \in S : TRUE IN f[k] + SumOver(f, S \ {k})

TotalInFlight == SumOver(digestInFlight, DOMAIN digestInFlight)

\* The history entry of a step: the handler, its argument (the date string
\* of a digest response, the code of a tab change, the tab an effect
\* replaced) and the outcome of the request.  Handlers that return before
\* any setter leave the state, and the history, as they are.
Event(op, key, outcome) == [op |-> op, key |-> key, outcome |-> outcome]
NoOutcome == Aborted(AbortReason)

availableCountries == getAvailableCountries(digest)

\* A query string without a date parameter, and one with date=text.
NoParam == [given |-> FALSE, text |-> <<>>]
Param(text) == [given |-> TRUE, text |-> text]

\* An invocation of the route, and no invocation.
Invocation(method, date) == [method |-> method, date |-> date]
NoInvocation == Invocation("", NoParam)

\* No response of the route yet.
NoResponse == [status |-> "", body |-> JNull, headers |-> {}]

\* Dates that pass the route's validation.
RouteDates == {D0, D1}

\* The route before any invocation: nothing awaits the upstream API, no
\* upstream request was sent, nothing was answered.
RouteStart ==
  [waiting |-> [d \in RouteDates |-> 0], invocations |-> 0,
   upstreamRequests |-> 0, request |-> NoInvocation,
   answered |-> NoInvocation, upstream |-> NoOutcome,
   response |-> NoResponse]

\* The page of src/unnamed/part_000 before its first effect: currentDate is
\* yesterday (the clock is fixed at the day after D3), loading is true, and
\* no request was sent.
Yesterday == parseAPIDateStringToUTCDate(D3)
VariantStart ==
  [mounted |-> FALSE, digest |-> JNull, loading |-> TRUE, error |-> Null,
   currentDate |-> Yesterday, activeTab |-> "ID", requests |-> <<>>]

\* The refs of src/App.vue before onMounted.
AppStart ==
  [mounted |-> FALSE, digest |-> JNull, loading |-> TRUE, error |-> Null,
   expandedCategories |-> <<>>, inFlight |-> 0,
   last |-> [op |-> "init", name |-> "", outcome |-> NoOutcome]]

Init ==
  /\ mounted = FALSE
  /\ availableDates = <<>>
  /\ loadingDates = TRUE
  /\ datesError = Null
  /\ digest = JNull
  /\ loadingDigest = FALSE
  /\ digestError = Null
  /\ currentDate = NoDate
  /\ activeTab = "ID"
  /\ digestCache = <<>>
  /\ direction = 0
  /\ renderPending = FALSE
  /\ datesInFlight = 0
  /\ digestInFlight = [k \in DateKeys |-> 0]
  /\ requested = {}
  /\ last = Event("init", <<>>, NoOutcome)
  /\ datesReading = 0
  /\ digestReading = [k \in DateKeys |-> 0]
  /\ route = RouteStart
  /\ variant = VariantStart
  /\ app = AppStart

-----------------------------------------------------------------------------
(* Effects *)

\* if (digestCache[dateString]) in fetchDigest.
CacheHit(cache, dateString) ==
  dateString \in DOMAIN cache /\ Truthy(cache[dateString])

\* fetchDigest(date) up to its first await: the cache test, and on a miss
\* the loading flag, the cleared error and the request.
FetchDigestStart(date) ==
  LET dateString == formatDateForAPI(date)
  IN IF CacheHit(digestCache, dateString)
     THEN /\ digest' = digestCache[dateString]
          /\ digestError' = Null
          /\ loadingDigest' = FALSE
          /\ UNCHANGED <<digestInFlight, requested>>
     ELSE /\ TotalInFlight < MaxInFlight
          /\ loadingDigest' = TRUE
          /\ digestError' = Null
          /\ digestInFlight' = [digestInFlight EXCEPT ![dateString] = @ + 1]
          /\ requested' = requested \cup {dateString}
          /\ UNCHANGED digest

\* A date effect that falls back to a fixed date when there is no current
\* date, as the variant without a dates list does with yesterday.
DateEffectWithFallbackDate ==
  FetchDigestStart(IF currentDate # NoDate THEN currentDate
                   ELSE parseAPIDateStringToUTCDate(D3))

\* useEffect(..., [currentDate, fetchDigest]).  fetchDigest is re-created by
\* every render (formatDateForAPI, one of its useCallback dependencies, is a
\* new function each render), so the effect runs after every commit.
DateEffect ==
  IF currentDate # NoDate
  THEN FetchDigestStart(currentDate)
  ELSE /\ digest' = JNull
       /\ loadingDigest' = FALSE
       /\ digestError' = Null
       /\ UNCHANGED <<digestInFlight, requested>>

\* A tab effect that only fills an empty tab and never replaces a tab the
\* digest no longer has.
TabEffectKeepsMissingTab(dg, tab, dir) ==
  LET countries == getAvailableCountries(dg)
  IN IF Len(countries) > 0 /\ tab = ""
     THEN [activeTab |-> countries[1], direction |-> 0]
     ELSE IF Len(countries) = 0 /\ tab # ""
     THEN [activeTab |-> "", direction |-> dir]
     ELSE [activeTab |-> tab, direction |-> dir]

\* useEffect(..., [digest, activeTab, setActiveTab]): the tab and the
\* direction it leaves.
TabEffectResult(dg, tab, dir) ==
  LET countries == getAvailableCountries(dg)
  IN IF Len(countries) > 0
     THEN IF tab = "" \/ IndexOf(countries, tab) = 0
          THEN [activeTab |-> countries[1], direction |-> 0]
          ELSE [activeTab |-> tab, direction |-> dir]
     ELSE IF tab # ""
          THEN [activeTab |-> "", direction |-> dir]
          ELSE [activeTab |-> tab, direction |-> dir]

TabEffect ==
  LET r == TabEffectResult(digest, activeTab, direction)
  IN /\ activeTab' = r.activeTab
     /\ direction' = r.direction

\* The mount: the first commit's effects, among them fetchAvailableDates().
Mount ==
  /\ ~mounted
  /\ mounted' = TRUE
  /\ datesInFlight' = datesInFlight + 1
  /\ loadingDates' = TRUE
  /\ datesError' = Null
  /\ DateEffect
  /\ TabEffect
  /\ last' = Event("mount", <<>>, NoOutcome)
  /\ UNCHANGED <<datesReading, digestReading, route, variant, app>>
  /\ UNCHANGED <<availableDates, currentDate, digestCache>>
  /\ renderPending' = (ReactState' # ReactState)

\* The passive effects of one commit, run on that render's values; their
\* setter calls are batched into the next render.
RunEffects ==
  /\ mounted
  /\ renderPending
  /\ DateEffect
  /\ TabEffect
  /\ last' = Event("effects", IF activeTab' # activeTab THEN <<activeTab>> ELSE <<>>,
                   NoOutcome)
  /\ UNCHANGED <<mounted, availableDates, loadingDates, datesError,
                 currentDate, digestCache, datesInFlight>>
  /\ UNCHANGED <<datesReading, digestReading, route, variant, app>>
  /\ renderPending' = (ReactState' # ReactState)

\* Handlers run between commits.
Idle == mounted /\ ~renderPending

-----------------------------------------------------------------------------
(* Available dates *)

\* A continuation that stores the list it received before it validates it.
DatesResultStoredUnvalidated(o, dates0, cur0) ==
  LET r == TryFetch(o, "available dates:")
  IN IF r.threw
     THEN [error |-> DatesErrorMessage(r.err, o), dates |-> dates0,
           current |-> cur0, loaded |-> FALSE]
     ELSE IF ~IsDateArray(r.data)
     THEN [error |-> DatesErrorMessage(ErrorObj("Error", InvalidFormatMessage), o),
           dates |-> IF r.data.kind = "list" THEN r.data.items ELSE dates0,
           current |-> cur0, loaded |-> FALSE]
     ELSE LET dates == SortDates(r.data.items)
          IN IF Len(dates) > 0
             THEN [error |-> Null, dates |-> dates,
                   current |-> parseAPIDateStringToUTCDate(dates[Len(dates)]),
                   loaded |-> TRUE]
             ELSE [error |-> NoDatesMessage, dates |-> dates,
                   current |-> cur0, loaded |-> TRUE]

\* The continuation of fetchAvailableDates after its awaits: the error it
\* reports, the list and the current date it sets.
DatesResult(o, dates0, cur0) ==
  LET r == TryFetch(o, "available dates:")
  IN IF r.threw
     THEN [error |-> DatesErrorMessage(r.err, o), dates |-> dates0,
           current |-> cur0, loaded |-> FALSE]
     ELSE IF ~IsDateArray(r.data)
     THEN [error |-> DatesErrorMessage(ErrorObj("Error", InvalidFormatMessage), o),
           dates |-> dates0, current |-> cur0, loaded |-> FALSE]
     ELSE LET dates == SortDates(r.data.items)
          IN IF Len(dates) > 0
             THEN [error |-> Null, dates |-> dates,
                   current |-> parseAPIDateStringToUTCDate(dates[Len(dates)]),
                   loaded |-> TRUE]
             ELSE [error |-> NoDatesMessage, dates |-> dates,
                   current |-> cur0, loaded |-> TRUE]

DatesContinuation(o) ==
  /\ Idle
  /\ datesInFlight > 0
  /\ datesInFlight' = datesInFlight - 1
  /\ LET r == DatesResult(o, availableDates, currentDate)
     IN /\ availableDates' = r.dates
        /\ currentDate' = r.current
        /\ datesError' = IF r.error # Null THEN r.error ELSE datesError
  /\ loadingDates' = FALSE
  /\ renderPending' = TRUE
  /\ last' = Event("datesResponse", <<>>, o)
  /\ UNCHANGED <<mounted, digest, loadingDigest, digestError, activeTab,
                 digestCache, direction, digestInFlight, requested>>

\* A dates request ends, headers and body in one step.
DatesResponse(o) ==
  /\ DatesContinuation(o)
  /\ UNCHANGED <<datesReading, digestReading, route, variant, app>>

\* "Try Again" on the dates error screen: fetchAvailableDates().
RetryDates ==
  /\ Idle
  /\ ~loadingDates
  /\ datesError # Null
  /\ loadingDates' = TRUE
  /\ datesError' = Null
  /\ datesInFlight' = datesInFlight + 1
  /\ renderPending' = TRUE
  /\ last' = Event("retryDates", <<>>, NoOutcome)
  /\ UNCHANGED <<datesReading, digestReading, route, variant, app>>
  /\ UNCHANGED <<mounted, availableDates, digest, loadingDigest, digestError,
                 currentDate, activeTab, digestCache, direction,
                 digestInFlight, requested>>

-----------------------------------------------------------------------------
(* Date navigation *)

\* What goToPreviousDay does with the current date: whether it calls
\* setCurrentDate, and with what.
PreviousDayCall(cur, dates) ==
  IF cur = NoDate \/ isPreviousDayNavigationDisabled(cur, dates)
  THEN [set |-> FALSE, date |-> cur]
  ELSE LET currentIndex == IndexOf(dates, formatDateForAPI(cur))
       IN IF currentIndex > 1
          THEN [set |-> TRUE,
                date |-> parseAPIDateStringToUTCDate(dates[currentIndex - 1])]
          ELSE [set |-> FALSE, date |-> cur]

NextDayCall(cur, dates) ==
  IF cur = NoDate \/ isNextDayNavigationDisabled(cur, dates)
  THEN [set |-> FALSE, date |-> cur]
  ELSE LET currentIndex == IndexOf(dates, formatDateForAPI(cur))
       IN IF currentIndex < Len(dates)
          THEN [set |-> TRUE,
                date |-> parseAPIDateStringToUTCDate(dates[currentIndex + 1])]
          ELSE [set |-> FALSE, date |-> cur]

Navigate(op, call) ==
  /\ Idle
  /\ UNCHANGED <<datesReading, digestReading, route, variant, app>>
  /\ IF call.set
     THEN /\ currentDate' = call.date
          /\ renderPending' = TRUE
          /\ last' = Event(op, <<>>, NoOutcome)
     ELSE UNCHANGED <<currentDate, renderPending, last>>
  /\ UNCHANGED <<mounted, availableDates, loadingDates, datesError, digest,
                 loadingDigest, digestError, activeTab, digestCache,
                 direction, datesInFlight, digestInFlight, requested>>

goToPreviousDay ==
  Navigate("goToPreviousDay", PreviousDayCall(currentDate, availableDates))

goToNextDay ==
  Navigate("goToNextDay", NextDayCall(currentDate, availableDates))

-----------------------------------------------------------------------------
(* Digest *)

\* A cache update that leaves out the spread of the previous cache.
StoreDigestAlone(cache, dateString, data) == [k \in {dateString} |-> data]

\* setDigestCache(prevCache => ({ ...prevCache, [dateString]: data }))
StoreDigest(cache, dateString, data) ==
  [k \in DOMAIN cache \cup {dateString} |->
     IF k = dateString THEN data ELSE cache[k]]

\* A continuation that shows the payload only when it is for the date that
\* is current when it arrives.
ShownDigestIfCurrent(cur, dateString, dg, data) ==
  IF cur # NoDate /\ formatDateForAPI(cur) = dateString THEN data ELSE dg

\* setDigest(data): the digest shown after a request for dateString brought
\* data, whatever the current date cur and the digest dg shown before.
ShownDigest(cur, dateString, dg, data) == data

\* The continuation of fetchDigest(date) after its awaits, for a request
\* sent for dateString.
DigestContinuation(dateString, o) ==
  /\ Idle
  /\ digestInFlight[dateString] > 0
  /\ digestInFlight' = [digestInFlight EXCEPT ![dateString] = @ - 1]
  /\ LET r == TryFetch(o, "digest:")
     IN IF r.threw
        THEN /\ digestError' = DigestErrorMessage(r.err, o)
             /\ UNCHANGED <<digest, digestCache>>
        ELSE /\ digest' = ShownDigest(currentDate, dateString, digest, r.data)
             /\ digestCache' = StoreDigest(digestCache, dateString, r.data)
             /\ UNCHANGED digestError
  /\ loadingDigest' = FALSE
  /\ last' = Event("digestResponse", dateString, o)
  /\ UNCHANGED <<mounted, availableDates, loadingDates, datesError,
                 currentDate, activeTab, direction, datesInFlight, requested>>
  /\ renderPending' = (ReactState' # ReactState \/ ~TryFetch(o, "digest:").threw)

\* A digest request ends, headers and body in one step.
DigestResponse(dateString, o) ==
  /\ DigestContinuation(dateString, o)
  /\ UNCHANGED <<datesReading, digestReading, route, variant, app>>

-----------------------------------------------------------------------------
(* Tabs *)

\* Codes changeTab is called with: the categories and one no digest has.
TabCodes == Categories \cup {"DXY"}

\* A changeTab that always animates forward.
ChangeTabAlwaysForward(countries, tab, dir, newTabCode) ==
  LET currentIdx == IndexOf(countries, tab)
      newIdx == IndexOf(countries, newTabCode)
  IN IF newIdx = 0 \/ newIdx = currentIdx
     THEN [set |-> FALSE, direction |-> dir, activeTab |-> tab]
     ELSE [set |-> TRUE, direction |-> 1, activeTab |-> newTabCode]

\* What changeTab(newTabCode) does: whether it reaches the setters, and the
\* direction and tab it sets.
ChangeTabCall(countries, tab, dir, newTabCode) ==
  LET currentIdx == IndexOf(countries, tab)
      newIdx == IndexOf(countries, newTabCode)
  IN IF newIdx = 0 \/ newIdx = currentIdx
     THEN [set |-> FALSE, direction |-> dir, activeTab |-> tab]
     ELSE [set |-> TRUE,
           direction |-> IF newIdx > currentIdx THEN 1 ELSE 0 - 1,
           activeTab |-> newTabCode]

changeTab(newTabCode) ==
  /\ Idle
  /\ UNCHANGED <<datesReading, digestReading, route, variant, app>>
  /\ LET c == ChangeTabCall(availableCountries, activeTab, direction, newTabCode)
     IN IF c.set
        THEN /\ direction' = c.direction
             /\ activeTab' = c.activeTab
             /\ renderPending' = TRUE
             /\ last' = Event("changeTab", <<newTabCode>>, NoOutcome)
        ELSE UNCHANGED <<direction, activeTab, renderPending, last>>
  /\ UNCHANGED <<mounted, availableDates, loadingDates, datesError, digest,
                 loadingDigest, digestError, currentDate, digestCache,
                 datesInFlight, digestInFlight, requested>>

-----------------------------------------------------------------------------

Next ==
  \/ Mount
  \/ RunEffects
  \/ \E o \in DatesOutcomes : DatesResponse(o)
  \/ RetryDates
  \/ goToPreviousDay
  \/ goToNextDay
  \/ \E d \in DateKeys : \E o \in DigestOutcomes : DigestResponse(d, o)
  \/ \E code \in TabCodes : changeTab(code)

Spec == Init /\ [][Next]_vars

-----------------------------------------------------------------------------
(* Date navigation claims *)

\* The current date after goToPreviousDay / goToNextDay.
AfterPrevious == PreviousDayCall(currentDate, availableDates).date
AfterNext == NextDayCall(currentDate, availableDates).date

CurrentAt(i) ==
  currentDate # NoDate /\ formatDateForAPI(currentDate) = availableDates[i]

\* C1: whenever the current date sits at index i of availableDates,
\* goToPreviousDay sets the current date to the entry before it when there
\* is one; at the first index it calls no setter and
\* isPreviousDayNavigationDisabled() is true.
C1_PreviousDayStepsBack ==
  \A i \in 1..Len(availableDates) :
    CurrentAt(i) =>
      IF i > 1
      THEN AfterPrevious = parseAPIDateStringToUTCDate(availableDates[i - 1])
      ELSE /\ ~PreviousDayCall(currentDate, availableDates).set
           /\ isPreviousDayNavigationDisabled(currentDate, availableDates)

\* C2: whenever the current date sits at index i of availableDates,
\* goToNextDay sets the current date to the entry after it when there is
\* one; at the last index it calls no setter and
\* isNextDayNavigationDisabled() is true; with no dates or no current date
\* neither handler calls a setter and both predicates are true.
C2_NextDayStepsForward ==
  /\ \A i \in 1..Len(availableDates) :
       CurrentAt(i) =>
         IF i < Len(availableDates)
         THEN AfterNext = parseAPIDateStringToUTCDate(availableDates[i + 1])
         ELSE /\ ~NextDayCall(currentDate, availableDates).set
              /\ isNextDayNavigationDisabled(currentDate, availableDates)
  /\ (Len(availableDates) = 0 \/ currentDate = NoDate) =>
       /\ ~PreviousDayCall(currentDate, availableDates).set
       /\ ~NextDayCall(currentDate, availableDates).set
       /\ isPreviousDayNavigationDisabled(currentDate, availableDates)
       /\ isNextDayNavigationDisabled(currentDate, availableDates)

\* A dates response that passed validation with at least one date.
DatesJustLoaded ==
  /\ last.op = "datesResponse"
  /\ datesError = Null
  /\ Len(availableDates) > 0

IsAscending(dates) ==
  \A i \in 1..(Len(dates) - 1) : ~LocaleLess(dates[i + 1], dates[i])

\* C3: right after a successful load of a non-empty list the current date
\* is the last element of the ascending availableDates, next-day navigation
\* is disabled, and goToPreviousDay moves to the second-to-last entry.
C3_StartsAtLatest ==
  DatesJustLoaded =>
    LET n == Len(availableDates)
    IN /\ IsAscending(availableDates)
       /\ formatDateForAPI(currentDate) = availableDates[n]
       /\ isNextDayNavigationDisabled(currentDate, availableDates)
       /\ n > 1 =>
            /\ PreviousDayCall(currentDate, availableDates).set
            /\ AfterPrevious = parseAPIDateStringToUTCDate(availableDates[n - 1])

-----------------------------------------------------------------------------
(* Digest claims *)

\* C4: while availableDates is empty there is no current date and no digest
\* request has ever been sent or is in flight.
C4_NoFetchWithoutDates ==
  Len(availableDates) = 0 =>
    /\ currentDate = NoDate
    /\ requested = {}
    /\ TotalInFlight = 0

\* The dates endpoint answered with an empty list.
C4_EmptyListLoaded ==
  /\ last.op = "datesResponse"
  /\ last.outcome = Responded(TRUE, "200", "OK", Body(JList(<<>>)))
  /\ Len(availableDates) = 0
  /\ datesError = NoDatesMessage

\* The effects of a commit are about to run fetchDigest for the current date.
FetchDigestRuns == mounted /\ renderPending /\ currentDate # NoDate

\* C5: once a digest for the current date has been stored, fetchDigest for it
\* sends no request, shows the stored payload, clears the error and ends
\* loading.
C5_StoredDateNotRefetched ==
  [][(FetchDigestRuns /\ formatDateForAPI(currentDate) \in DOMAIN digestCache) =>
       /\ digestInFlight' = digestInFlight
       /\ digest' = digestCache[formatDateForAPI(currentDate)]
       /\ digestError' = Null
       /\ loadingDigest' = FALSE]_vars

\* The request ended with a success status and a body that parses.
IsSuccess(o) == o.kind = "response" /\ o.ok /\ o.body.parses

\* C6: a successful digest response stores its payload under its date and
\* keeps every other entry; a failed one leaves the cache as it is; no step
\* removes an entry.
C6_CacheFrame ==
  [][/\ (last'.op = "digestResponse" /\ IsSuccess(last'.outcome)) =>
          /\ DOMAIN digestCache' = DOMAIN digestCache \cup {last'.key}
          /\ digestCache'[last'.key] = last'.outcome.body.json
          /\ \A k \in DOMAIN digestCache \ {last'.key} :
               digestCache'[k] = digestCache[k]
     /\ (last'.op = "digestResponse" /\ ~IsSuccess(last'.outcome)) =>
          digestCache' = digestCache
     /\ last'.op # "digestResponse" => digestCache' = digestCache
     /\ \A k \in DOMAIN digestCache : k \in DOMAIN digestCache']_vars

\* A payload was stored next to an entry of another date.
C6_SecondEntryStored ==
  /\ last.op = "digestResponse"
  /\ IsSuccess(last.outcome)
  /\ \E k \in DOMAIN digestCache : k # last.key

\* C7: a timeout gives the timed-out message, a "Failed to fetch" transport
\* error the network message, any other thrown error the load-failed message
\* with its text.
C7_FailureMessages ==
  last.op = "digestResponse" =>
    LET o == last.outcome
    IN /\ o.kind = "abort" => digestError = TimedOutMessage
       /\ o.kind = "network" =>
            digestError =
              IF Includes(o.rejection.message, <<"Failed", "to", "fetch">>)
              THEN NetworkErrorMessage
              ELSE LoadFailedMessage(o.rejection.message)
       /\ (o.kind = "response" /\ o.ok /\ ~o.body.parses) =>
            digestError = LoadFailedMessage(JsonSyntaxMessage)

\* The text a non-success response is to be reported with: the body's error
\* member when it parses and has one, else the generic text with the status.
HttpErrorText(o) ==
  IF o.body.parses /\ o.body.json.kind = "object" /\ o.body.json.error # <<>>
  THEN o.body.json.error
  ELSE <<"Failed", "to", "fetch", "digest:", o.status, o.statusText>>

\* C8: a non-success response ends in the error state: digestError carries
\* the body's error text or else the generic text with the status, digest is
\* kept and loadingDigest is false.
C8_HttpErrorReported ==
  [][(last'.op = "digestResponse" /\ last'.outcome.kind = "response"
        /\ ~last'.outcome.ok) =>
       /\ Includes(digestError', HttpErrorText(last'.outcome))
       /\ digest' = digest
       /\ loadingDigest' = FALSE]_vars

-----------------------------------------------------------------------------
(* Tab claims *)

HasCategory(dg, code) ==
  /\ dg.kind = "digest"
  /\ \E b \in 1..Len(dg.buckets) :
       \E j \in 1..Len(dg.buckets[b]) : dg.buckets[b][j] = code

\* The first key of the first bucket that has one.
FirstSeenCategory(dg) ==
  LET b == CHOOSE b \in 1..Len(dg.buckets) :
             /\ Len(dg.buckets[b]) > 0
             /\ \A c \in 1..(b - 1) : Len(dg.buckets[c]) = 0
  IN dg.buckets[b][1]

\* C9: when the effects run, a tab that the digest has stays; a tab it does
\* not have is replaced by the first category seen, with direction 0; with
\* no categories the tab becomes the empty string.
C9_TabFollowsDigest ==
  [][(mounted /\ renderPending) =>
       IF \A code \in Categories : ~HasCategory(digest, code)
       THEN activeTab' = ""
       ELSE IF HasCategory(digest, activeTab)
       THEN activeTab' = activeTab
       ELSE activeTab' = FirstSeenCategory(digest) /\ direction' = 0]_vars

\* The effects replaced the tab "ID", which the new digest does not have.
C9_MissingTabReplaced ==
  /\ last.op = "effects"
  /\ last.key = <<"ID">>
  /\ ~HasCategory(digest, "ID")
  /\ activeTab = "US"
  /\ direction = 0

\* C10: changeTab reaches its setters only for an available code other than
\* the active tab; it then makes the code active and sets direction to 1
\* when the code comes after the active tab and to -1 when before.
C10_ChangeTab ==
  [][/\ Idle =>
          \A code \in TabCodes :
            (~HasCategory(digest, code) \/ code = activeTab) =>
              ~ChangeTabCall(availableCountries, activeTab, direction, code).set
     /\ last'.op = "changeTab" =>
          LET code == last'.key[1]
          IN /\ HasCategory(digest, code)
             /\ code # activeTab
             /\ activeTab' = code
             /\ direction' =
                  IF IndexOf(availableCountries, code)
                       > IndexOf(availableCountries, activeTab)
                  THEN 1 ELSE 0 - 1]_vars

\* changeTab went back to an earlier tab.
C10_WentBack ==
  /\ last.op = "changeTab"
  /\ last.key = <<"US">>
  /\ activeTab = "US"
  /\ direction = 0 - 1

-----------------------------------------------------------------------------
(* getAvailableCountries on its own *)

\* Keys a bucket can have, and the orders Object.keys can report them in:
\* a bucket is an object, so no key repeats within it.
CountryKeys == Categories \cup {"DXY"}

KeyOrders ==
  {ks \in UNION {[1..n -> CountryKeys] : n \in 0..Cardinality(CountryKeys)} :
     \A i \in 1..Len(ks) : \A j \in 1..Len(ks) : i # j => ks[i] # ks[j]}

\* Digest values: null, an empty array (digest[0] is missing), and bucket
\* sequences of up to MaxBuckets buckets.
DigestInputs ==
  {JNull, JList(<<>>)}
    \cup {JDigest(bs) : bs \in UNION {[1..n -> KeyOrders] : n \in 0..MaxBuckets}}

\* The page holds some digest and has not rendered it yet.
CountriesInit ==
  /\ mounted = TRUE
  /\ availableDates = <<>>
  /\ loadingDates = FALSE
  /\ datesError = Null
  /\ digest \in DigestInputs
  /\ loadingDigest = FALSE
  /\ digestError = Null
  /\ currentDate = NoDate
  /\ activeTab = "ID"
  /\ digestCache = <<>>
  /\ direction = 0
  /\ renderPending = TRUE
  /\ datesInFlight = 0
  /\ digestInFlight = [k \in DateKeys |-> 0]
  /\ requested = {}
  /\ last = Event("init", <<>>, NoOutcome)
  /\ datesReading = 0
  /\ digestReading = [k \in DateKeys |-> 0]
  /\ route = RouteStart
  /\ variant = VariantStart
  /\ app = AppStart

\* The render computes availableCountries = getAvailableCountries().
RenderCountries ==
  /\ last.op = "init"
  /\ last' = Event("render", getAvailableCountries(digest), NoOutcome)
  /\ UNCHANGED <<mounted, availableDates, loadingDates, datesError, digest,
                 loadingDigest, digestError, currentDate, activeTab,
                 digestCache, direction, renderPending, datesInFlight,
                 digestInFlight, requested, datesReading, digestReading,
                 route, variant, app>>

CountriesNext == RenderCountries

CountriesSpec == CountriesInit /\ [][CountriesNext]_vars

\* The places <<bucket, key index>> of a digest where code occurs.
Occurrences(dg, code) ==
  UNION {{<<b, j>> : j \in {i \in 1..Len(dg.buckets[b]) : dg.buckets[b][i] = code}} :
           b \in 1..Len(dg.buckets)}

\* Place p comes before place q when the buckets are scanned in sequence.
ScannedBefore(p, q) == p[1] < q[1] \/ (p[1] = q[1] /\ p[2] < q[2])

\* Some occurrence of code a comes before every occurrence of code b.
FirstSeenBefore(dg, a, b) ==
  \E p \in Occurrences(dg, a) : \A q \in Occurrences(dg, b) : ScannedBefore(p, q)

\* C11: getAvailableCountries returns exactly the keys that occur in some
\* bucket of digest[0], none twice, in the order of their first occurrence;
\* for a null digest or a missing digest[0] it returns the empty list.
C11_CountriesFirstSeen ==
  last.op = "render" =>
    LET r == last.key
    IN IF digest.kind # "digest" THEN r = <<>>
       ELSE /\ \A code \in CountryKeys :
                 (Occurrences(digest, code) # {}) <=> (\E i \in 1..Len(r) : r[i] = code)
            /\ \A i \in 1..Len(r) : \A j \in 1..Len(r) : i # j => r[i] # r[j]
            /\ \A i \in 1..Len(r) : \A j \in 1..Len(r) :
                 i < j => FirstSeenBefore(digest, r[i], r[j])

\* Two buckets that share a key, the later one bringing a new key first.
C11_SharedKeyListedOnce ==
  /\ last.op = "render"
  /\ digest = JDigest(<<<<"US", "ID">>, <<"DXY", "US">>>>)
  /\ last.key = <<"US", "ID", "DXY">>

-----------------------------------------------------------------------------
(* The proxy route: GET and OPTIONS of /api/digest *)

\* The empty string, and a date written without zero padding.
EmptyText == << <<>> >>
UnpaddedDate == <<Digits(2024, 4), <<5>>, <<1>>>>

\* Query strings the route is invoked with.
RouteParams ==
  {NoParam} \cup {Param(t) : t \in RouteDates \cup {EmptyText, UnpaddedDate, BadDate}}

\* What AbortSignal.timeout(10000) makes fetch, or the body read, reject with.
TimeoutRejection ==
  ErrorObj("TimeoutError",
           <<"The", "operation", "was", "aborted", "due", "to", "timeout">>)

\* Messages of the TypeError of a failed upstream request: the connection
\* cannot be made, or it is lost while the body is read.
UpstreamFailureMessages == { <<"fetch", "failed">>, <<"terminated">> }

\* Status lines of upstream answers without success.
UpstreamErrors ==
  { <<"404", "Not Found">>, <<"503", "Service Unavailable">>, <<"500", "">> }

\* How the upstream request of an invocation can end.
UpstreamOutcomes ==
  {Aborted(TimeoutRejection)}
    \cup {NetworkFailed(m) : m \in UpstreamFailureMessages}
    \cup {Responded(FALSE, e[1], e[2], Unparseable) : e \in UpstreamErrors}
    \cup {Responded(TRUE, "200", "OK", Unparseable)}
    \cup {Responded(TRUE, "200", "OK", Body(j)) : j \in DigestBodies}

\* The headers of the success response and of the preflight response.
CorsHeaders ==
  { <<"Access-Control-Allow-Origin", "*">>,
    <<"Access-Control-Allow-Methods", "GET">>,
    <<"Access-Control-Allow-Headers", "Content-Type">> }

\* NextResponse.json({ error }, { status })
ErrorResponse(status, error) ==
  [status |-> status, body |-> JObject(error), headers |-> {}]

\* A validation that only tests for the parameter's presence.
ValidateDatePresent(date) ==
  IF ~date.given \/ date.text = EmptyText
  THEN [ok |-> FALSE,
        response |-> ErrorResponse("400", <<"Date", "parameter", "is", "required">>)]
  ELSE [ok |-> TRUE, response |-> NoResponse]

\* The two validations of GET: if (!date), if (!dateRegex.test(date)).
ValidateDate(date) ==
  IF ~date.given \/ date.text = EmptyText
  THEN [ok |-> FALSE,
        response |-> ErrorResponse("400", <<"Date", "parameter", "is", "required">>)]
  ELSE IF ~MatchesDatePattern(date.text)
  THEN [ok |-> FALSE,
        response |-> ErrorResponse("400", <<"Invalid", "date", "format.", "Use",
                                            "YYYY-MM-DD">>)]
  ELSE [ok |-> TRUE, response |-> NoResponse]

\* A relay that answers every upstream error as a bad gateway.
RelayAsBadGateway(status, statusText) ==
  ErrorResponse("502", <<"External", "API", "returned", status, ":", statusText>>)

\* if (!response.ok): the upstream status with an error text.
RelayUpstreamError(status, statusText) ==
  ErrorResponse(status, <<"External", "API", "returned", status, ":", statusText>>)

\* The catch block of GET.
RouteCatch(err) ==
  IF err.isError /\ err.name = "TimeoutError"
  THEN ErrorResponse("504", <<"Request", "timeout", "-", "the", "external", "API",
                              "took", "too", "long", "to", "respond">>)
  ELSE IF err.isError /\ err.name = "TypeError" /\ Includes(err.message, <<"fetch">>)
  THEN ErrorResponse("503", <<"Network", "error", "-", "unable", "to", "reach",
                              "the", "external", "API">>)
  ELSE ErrorResponse("500", <<"Internal", "server", "error", "while", "fetching",
                              "digest">>)

\* GET from the end of the upstream request on.
RouteAnswer(o) ==
  IF o.kind # "response" THEN RouteCatch(o.rejection)
  ELSE IF ~o.ok THEN RelayUpstreamError(o.status, o.statusText)
  ELSE IF ~o.body.parses THEN RouteCatch(ErrorObj("SyntaxError", JsonSyntaxMessage))
  ELSE [status |-> "200", body |-> o.body.json, headers |-> CorsHeaders]

pageVars ==
  <<mounted, availableDates, loadingDates, datesError, digest, loadingDigest,
    digestError, currentDate, activeTab, digestCache, direction, renderPending,
    datesInFlight, digestInFlight, requested, last, datesReading, digestReading,
    variant, app>>

\* GET is invoked: it answers 400 at once or sends the upstream request.
RouteGET(date) ==
  /\ route.invocations < MaxInvocations
  /\ LET v == ValidateDate(date)
         started == [route EXCEPT !.invocations = @ + 1,
                                  !.request = Invocation("GET", date)]
     IN route' =
          IF v.ok
          THEN [started EXCEPT !.waiting[date.text] = @ + 1,
                               !.upstreamRequests = @ + 1]
          ELSE [started EXCEPT !.answered = Invocation("GET", date),
                               !.upstream = NoOutcome,
                               !.response = v.response]
  /\ UNCHANGED pageVars

\* The upstream request of an invocation for date text d ends.
RouteUpstream(d, o) ==
  /\ route.waiting[d] > 0
  /\ route' = [route EXCEPT !.waiting[d] = @ - 1,
                            !.answered = Invocation("GET", Param(d)),
                            !.upstream = o,
                            !.response = RouteAnswer(o)]
  /\ UNCHANGED pageVars

\* OPTIONS is invoked.
RouteOPTIONS ==
  /\ route.invocations < MaxInvocations
  /\ route' = [route EXCEPT !.invocations = @ + 1,
                            !.request = Invocation("OPTIONS", NoParam),
                            !.answered = Invocation("OPTIONS", NoParam),
                            !.upstream = NoOutcome,
                            !.response = [status |-> "200", body |-> JNull,
                                          headers |-> CorsHeaders]]
  /\ UNCHANGED pageVars

RouteNext ==
  \/ \E date \in RouteParams : RouteGET(date)
  \/ \E d \in RouteDates : \E o \in UpstreamOutcomes : RouteUpstream(d, o)
  \/ RouteOPTIONS

RouteSpec == Init /\ [][RouteNext]_vars

-----------------------------------------------------------------------------
(* Proxy route claims *)

\* The step starts a GET invocation.
GetStarts ==
  /\ route'.invocations = route.invocations + 1
  /\ route'.request.method = "GET"

\* C12: a GET without a date parameter is answered 400 with the error
\* "Date parameter is required", a GET whose date does not match
\* YYYY-MM-DD is answered 400, and neither sends an upstream request.
C12_BadDateAnswered400 ==
  [][(GetStarts /\ (~route'.request.date.given
                      \/ ~MatchesDatePattern(route'.request.date.text))) =>
       /\ route'.answered = route'.request
       /\ route'.response.status = "400"
       /\ route'.response.body.kind = "object"
       /\ ~route'.request.date.given =>
            route'.response.body.error = <<"Date", "parameter", "is", "required">>
       /\ route'.upstreamRequests = route.upstreamRequests
       /\ route'.waiting = route.waiting]_vars

\* A date that does not match the pattern was answered 400 while no
\* upstream request had been sent.
C12_BadFormatRejected ==
  /\ route.answered = Invocation("GET", Param(BadDate))
  /\ route.response.status = "400"
  /\ route.upstreamRequests = 0

\* The upstream answered the last invocation without success.
UpstreamRefused ==
  /\ route.answered.method = "GET"
  /\ route.upstream.kind = "response"
  /\ ~route.upstream.ok

\* C13: an upstream answer with a non-success status s is answered with
\* status s and a JSON body whose error text has the upstream status code
\* and status text in it.
C13_UpstreamStatusRelayed ==
  UpstreamRefused =>
    /\ route.response.status = route.upstream.status
    /\ route.response.body.kind = "object"
    /\ Includes(route.response.body.error, <<route.upstream.status>>)
    /\ Includes(route.response.body.error, <<route.upstream.statusText>>)

\* An upstream 503 was relayed.
C13_Relayed503 ==
  /\ UpstreamRefused
  /\ route.upstream.status = "503"
  /\ route.response.status = "503"

\* C14: every GET whose upstream request failed is answered with a JSON
\* error body: 504 after the timeout, 503 after a network failure, 500
\* after any other failure such as a body that does not parse.
C14_FailuresAnswered ==
  (route.answered.method = "GET" /\ route.upstream # NoOutcome) =>
    LET o == route.upstream
    IN /\ o.kind = "abort" => route.response.status = "504"
       /\ o.kind = "network" => route.response.status = "503"
       /\ (o.kind = "response" /\ o.ok /\ ~o.body.parses) =>
            route.response.status = "500"
       /\ (o.kind # "response" \/ ~o.body.parses) =>
            /\ route.response.body.kind = "object"
            /\ route.response.body.error # <<>>

\* C15: every response of the route carries the three CORS headers.
C15_EveryResponseHasCors ==
  route.response # NoResponse => CorsHeaders \subseteq route.response.headers

-----------------------------------------------------------------------------
(* Available dates claims *)

\* A parsed body that is an array of strings of the shape YYYY-MM-DD.
IsDatesPayload(j) ==
  j.kind = "list" /\ \A i \in 1..Len(j.items) : MatchesDatePattern(j.items[i])

\* The step is the end of a dates request with a success status and a body
\* that parses.
DatesAnswered ==
  /\ last'.op = "datesResponse"
  /\ last'.outcome.kind = "response"
  /\ last'.outcome.ok
  /\ last'.outcome.body.parses

\* C16: a dates payload that is not an array of YYYY-MM-DD strings ends the
\* attempt with the invalid-format error and loadingDates false, and from
\* the start of an attempt to such an end availableDates, currentDate,
\* digest and digestCache keep their values.
C16_InvalidPayloadRejected ==
  [][/\ (DatesAnswered /\ ~IsDatesPayload(last'.outcome.body.json)) =>
          /\ datesError' = DatesLoadFailedMessage(InvalidFormatMessage)
          /\ loadingDates' = FALSE
     /\ (datesInFlight > 0
          /\ ~(DatesAnswered /\ IsDatesPayload(last'.outcome.body.json))) =>
          UNCHANGED <<availableDates, currentDate, digest, digestCache>>]_vars

\* The payload ["2024-05-01", "bad-date"] was rejected.
C16_BadEntryRejected ==
  /\ last.op = "datesResponse"
  /\ last.outcome = Responded(TRUE, "200", "OK", Body(JList(<<D1, BadDate>>)))
  /\ datesError = DatesLoadFailedMessage(InvalidFormatMessage)
  /\ availableDates = <<>>
  /\ ~loadingDates

\* C17: after a successful dates load availableDates is ascending and has
\* no entry twice.
C17_AscendingWithoutRepeats ==
  (last.op = "datesResponse" /\ datesError = Null) =>
    /\ IsAscending(availableDates)
    /\ \A i \in 1..Len(availableDates) : \A j \in 1..Len(availableDates) :
         i # j => availableDates[i] # availableDates[j]

-----------------------------------------------------------------------------
(* Requests in two phases: headers, then body *)

\* The headers of a dates response arrive: await fetch(...) resolves and
\* clearTimeout(timeoutId) runs before the body is read.  No setter is
\* called.
DatesHeaders ==
  /\ Idle
  /\ datesInFlight > datesReading
  /\ datesReading' = datesReading + 1
  /\ UNCHANGED <<mounted, availableDates, loadingDates, datesError, digest,
                 loadingDigest, digestError, currentDate, activeTab,
                 digestCache, direction, renderPending, datesInFlight,
                 digestInFlight, requested, last, digestReading, route, variant, app>>

\* The body read of a dates response ends.
DatesBody(o) ==
  /\ o.kind = "response"
  /\ datesReading > 0
  /\ datesReading' = datesReading - 1
  /\ DatesContinuation(o)
  /\ UNCHANGED <<digestReading, route, variant, app>>

\* fetch(...) of a dates request rejects: the armed timeout aborts it or the
\* transport fails.
DatesRejected(o) ==
  /\ o.kind # "response"
  /\ datesInFlight > datesReading
  /\ DatesContinuation(o)
  /\ UNCHANGED <<datesReading, digestReading, route, variant, app>>

\* The same three steps of a digest request sent for dateString.
DigestHeaders(dateString) ==
  /\ Idle
  /\ digestInFlight[dateString] > digestReading[dateString]
  /\ digestReading' = [digestReading EXCEPT ![dateString] = @ + 1]
  /\ UNCHANGED <<mounted, availableDates, loadingDates, datesError, digest,
                 loadingDigest, digestError, currentDate, activeTab,
                 digestCache, direction, renderPending, datesInFlight,
                 digestInFlight, requested, last, datesReading, route, variant, app>>

DigestBody(dateString, o) ==
  /\ o.kind = "response"
  /\ digestReading[dateString] > 0
  /\ digestReading' = [digestReading EXCEPT ![dateString] = @ - 1]
  /\ DigestContinuation(dateString, o)
  /\ UNCHANGED <<datesReading, route, variant, app>>

DigestRejected(dateString, o) ==
  /\ o.kind # "response"
  /\ digestInFlight[dateString] > digestReading[dateString]
  /\ DigestContinuation(dateString, o)
  /\ UNCHANGED <<datesReading, digestReading, route, variant, app>>

PhasedNext ==
  \/ Mount
  \/ RunEffects
  \/ DatesHeaders
  \/ \E o \in DatesOutcomes : DatesBody(o)
  \/ \E o \in DatesOutcomes : DatesRejected(o)
  \/ RetryDates
  \/ goToPreviousDay
  \/ goToNextDay
  \/ \E d \in DateKeys : DigestHeaders(d)
  \/ \E d \in DateKeys : \E o \in DigestOutcomes : DigestBody(d, o)
  \/ \E d \in DateKeys : \E o \in DigestOutcomes : DigestRejected(d, o)
  \/ \E code \in TabCodes : changeTab(code)

PhasedSpec == Init /\ [][PhasedNext]_vars

\* C18: no fetch can stay unfinished forever: every unfinished dates or
\* digest request still has its timeout armed, which ends it with an error
\* and a false loading flag however long the server stalls.
C18_UnfinishedFetchHasTimeout ==
  /\ datesReading = 0
  /\ \A d \in DateKeys : digestReading[d] = 0

-----------------------------------------------------------------------------
(* Out-of-order responses and dates errors *)

\* The step ends a digest request for a date that is not the current one.
StaleResponseArrives ==
  /\ last'.op = "digestResponse"
  /\ currentDate # NoDate
  /\ formatDateForAPI(currentDate) # last'.key

\* C19: a response for a date that is no longer current is not discarded:
\* a successful one puts its payload into digest, and any one sets
\* loadingDigest to false, while the current date stays what it is.
C19_StaleResponseApplied ==
  [][StaleResponseArrives =>
       /\ IsSuccess(last'.outcome) => digest' = last'.outcome.body.json
       /\ loadingDigest' = FALSE
       /\ currentDate' = currentDate]_vars

\* The payload of another date is shown while the request for the current
\* date, sent before that payload arrived, is still unresolved.
C19_StalePayloadShown ==
  /\ last.op = "digestResponse"
  /\ IsSuccess(last.outcome)
  /\ currentDate # NoDate
  /\ formatDateForAPI(currentDate) # last.key
  /\ digestInFlight[formatDateForAPI(currentDate)] > 0
  /\ digest = last.outcome.body.json
  /\ digest # JNull
  /\ ~loadingDigest

\* The dates error has the shape of the generic message.
IsGenericDatesError(msg) ==
  Includes(msg, <<"Failed", "to", "load", "available", "dates:">>)

\* C20: a failed dates fetch is reported in three categories: the timeout
\* with the timed-out message, a transport failure with a message that is
\* neither that nor the generic one, any other failure with the generic
\* message.
C20_DatesFailureCategories ==
  last.op = "datesResponse" =>
    LET o == last.outcome
    IN /\ o.kind = "abort" => datesError = DatesTimedOutMessage
       /\ o.kind = "network" =>
            /\ datesError # Null
            /\ datesError # DatesTimedOutMessage
            /\ ~IsGenericDatesError(datesError)
       /\ (o.kind = "response" /\ o.ok /\ ~o.body.parses) =>
            IsGenericDatesError(datesError)

-----------------------------------------------------------------------------
(* The current date, stale failures and repeated requests *)

\* C23: whenever a current date is set, its formatted string is an entry
\* of availableDates, so that no digest is requested for a date outside the
\* list.
C23_CurrentDateIsAvailable ==
  currentDate # NoDate =>
    \E i \in 1..Len(availableDates) :
      availableDates[i] = formatDateForAPI(currentDate)

\* The digest of the current date has been stored and is the one shown.
CurrentDigestLoaded ==
  /\ currentDate # NoDate
  /\ CacheHit(digestCache, formatDateForAPI(currentDate))
  /\ digest = digestCache[formatDateForAPI(currentDate)]

\* C25: a digest error is never set, or left set, by a failed request for
\* another date while the digest of the current date has loaded.
C25_NoStaleDigestError ==
  (digestError # Null /\ CurrentDigestLoaded) =>
    ~(last.op = "digestResponse" /\ last.key # formatDateForAPI(currentDate))

\* C26: at most one digest request for a given date is unresolved at any
\* time (the model has no retry of a digest request).
C26_OneRequestPerDate ==
  \A d \in DateKeys : digestInFlight[d] <= 1

-----------------------------------------------------------------------------
(* Every digest request returns successfully *)

\* A request that returns successfully: status 200 and a body that parses.
SuccessfulOutcomes == {o \in DigestOutcomes : IsSuccess(o)}

\* A digest request for dateString returns successfully.
DigestSucceeds(dateString) ==
  \E o \in SuccessfulOutcomes : DigestResponse(dateString, o)

\* The page when no digest request fails.
SettleNext ==
  \/ Mount
  \/ RunEffects
  \/ \E o \in DatesOutcomes : DatesResponse(o)
  \/ RetryDates
  \/ goToPreviousDay
  \/ goToNextDay
  \/ \E d \in DateKeys : DigestSucceeds(d)
  \/ \E code \in TabCodes : changeTab(code)

\* The effects of a commit are run, the dates request ends, and every
\* digest request returns: a continuation waits for the commit in progress
\* and then gets its turn, however often the user makes another commit.
SettleSpec ==
  /\ Init
  /\ [][SettleNext]_vars
  /\ WF_vars(Mount)
  /\ WF_vars(RunEffects)
  /\ SF_vars(\E o \in DatesOutcomes : DatesResponse(o))
  /\ \A d \in DateKeys : SF_vars(DigestSucceeds(d))

\* The user changes the current date.
UserNavigates == goToPreviousDay \/ goToNextDay

\* Nothing is loading, there is no digest error, and the digest shown is
\* the payload received for the current date.
ShowsCurrentDigest ==
  /\ ~loadingDigest
  /\ digestError = Null
  /\ currentDate # NoDate =>
       /\ formatDateForAPI(currentDate) \in DOMAIN digestCache
       /\ digest = digestCache[formatDateForAPI(currentDate)]

\* The bound on unresolved requests keeps the effects of a commit from
\* running: they would send one more request.
EffectsBlocked ==
  /\ renderPending
  /\ currentDate # NoDate
  /\ ~CacheHit(digestCache, formatDateForAPI(currentDate))
  /\ TotalInFlight >= MaxInFlight

\* C24: when the user eventually stops navigating and every digest request
\* returns successfully, then from some point on nothing is loading, there
\* is no digest error and the digest of the current date is shown
\* (in the behaviours in which the bound never blocks the effects).
C24_SettlesOnCurrentDigest ==
  ((<>[][~UserNavigates]_vars) /\ []~EffectsBlocked) => <>[]ShowsCurrentDigest

-----------------------------------------------------------------------------
(* The page that starts at yesterday (src/unnamed/part_000) *)

\* How a request of this page can end: controller.abort() is called without
\* a reason, so an aborted fetch rejects with an AbortError.
VariantOutcomes == {o \in DigestOutcomes : o.rejection.isError \/ o.kind = "response"}

\* Every variable but variant.
NotVariant ==
  <<mounted, availableDates, loadingDates, datesError, digest, loadingDigest,
    digestError, currentDate, activeTab, digestCache, direction, renderPending,
    datesInFlight, digestInFlight, requested, last, datesReading,
    digestReading, route, app>>

\* isYesterday(): the current date formats as yesterday does.
isYesterday(v) == formatDateForAPI(v.currentDate) = formatDateForAPI(Yesterday)

\* A call of fetchDigest(date) made by the render whose state is v, up to
\* its first await.  The request keeps that render's availableCountries
\* and activeTab, which its continuation reads.
VariantFetchDigest(v, date) ==
  [v EXCEPT !.loading = TRUE,
            !.error = Null,
            !.requests = Append(@, [date |-> formatDateForAPI(date),
                                    countries |-> getAvailableCountries(v.digest),
                                    activeTab |-> v.activeTab])]

\* The first commit: useEffect(() => { fetchDigest(currentDate) }, [currentDate]).
VariantMount ==
  /\ ~variant.mounted
  /\ variant' = VariantFetchDigest([variant EXCEPT !.mounted = TRUE],
                                   variant.currentDate)
  /\ UNCHANGED NotVariant

\* setCurrentDate(date), and the effect of the render that follows: it runs
\* on that render's values, before any continuation's update is rendered.
VariantSetCurrentDate(date) ==
  /\ variant.mounted
  /\ Len(variant.requests) < MaxPending
  /\ variant' = VariantFetchDigest([variant EXCEPT !.currentDate = date], date)
  /\ UNCHANGED NotVariant

VariantGoToPreviousDay ==
  /\ variant.currentDate[1] > Yesterday[1] - MaxDaysBack
  /\ VariantSetCurrentDate(<<variant.currentDate[1] - 1>>)

VariantGoToNextDay ==
  /\ ~isYesterday(variant)
  /\ VariantSetCurrentDate(<<variant.currentDate[1] + 1>>)

\* The tab buttons are rendered for the categories of the digest when
\* nothing is loading and there is no error: onClick={() => setActiveTab(code)}.
VariantSetActiveTab(countryCode) ==
  /\ variant.mounted
  /\ ~variant.loading
  /\ variant.error = Null
  /\ IndexOf(getAvailableCountries(variant.digest), countryCode) # 0
  /\ variant' = [variant EXCEPT !.activeTab = countryCode]
  /\ UNCHANGED NotVariant

\* "Try Again" on the error screen: onClick={() => fetchDigest(currentDate)}.
VariantRetry ==
  /\ variant.mounted
  /\ ~variant.loading
  /\ variant.error # Null
  /\ Len(variant.requests) < MaxPending
  /\ variant' = VariantFetchDigest(variant, variant.currentDate)
  /\ UNCHANGED NotVariant

\* The catch block of this page's fetchDigest.
VariantErrorMessage(err) ==
  IF err.isError THEN
    IF err.name = "AbortError" THEN TimedOutMessage
    ELSE IF Includes(err.message, <<"Failed", "to", "fetch">>) THEN NetworkErrorMessage
    ELSE LoadFailedMessage(err.message)
  ELSE UnexpectedMessage

\* The tab after setDigest(data) in the continuation of request req: the
\* keys of data[0] are pushed into availableCountries, the list of the
\* render that sent the request, and the test reads that render's
\* activeTab.  tab is the active tab when the continuation runs.
VariantTabAfter(req, data, tab) ==
  IF Truthy(data) /\ data.kind = "digest"
  THEN LET countries == ScanBuckets(req.countries, data.buckets)
       IN IF Len(countries) > 0 /\ IndexOf(countries, req.activeTab) = 0
          THEN countries[1]
          ELSE tab
  ELSE tab

\* Sequence s without its element at i.
RemoveAt(s, i) == SubSeq(s, 1, i - 1) \o SubSeq(s, i + 1, Len(s))

\* The continuation of the i-th unresolved request, which ended as o.
VariantResponse(i, o) ==
  /\ i \in 1..Len(variant.requests)
  /\ LET req == variant.requests[i]
         r == TryFetch(o, "digest:")
     IN variant' =
          IF r.threw
          THEN [variant EXCEPT !.error = VariantErrorMessage(r.err),
                               !.loading = FALSE,
                               !.requests = RemoveAt(@, i)]
          ELSE [variant EXCEPT !.digest = r.data,
                               !.activeTab = VariantTabAfter(req, r.data, @),
                               !.loading = FALSE,
                               !.requests = RemoveAt(@, i)]
  /\ UNCHANGED NotVariant

VariantNext ==
  \/ VariantMount
  \/ VariantGoToPreviousDay
  \/ VariantGoToNextDay
  \/ \E code \in Categories : VariantSetActiveTab(code)
  \/ VariantRetry
  \/ \E i \in 1..MaxPending : \E o \in VariantOutcomes : VariantResponse(i, o)

VariantSpec == Init /\ [][VariantNext]_vars

\* The tabs are shown, and no request is unresolved.
VariantSettled ==
  /\ variant.mounted
  /\ ~variant.loading
  /\ variant.error = Null
  /\ variant.requests = <<>>

\* C21: once loading has finished, the active tab is a category of the
\* displayed digest whenever that digest has at least one category.
C21_ActiveTabInDisplayedDigest ==
  (VariantSettled /\ Len(getAvailableCountries(variant.digest)) > 0) =>
    IndexOf(getAvailableCountries(variant.digest), variant.activeTab) # 0

-----------------------------------------------------------------------------
(* The Vue component (src/App.vue) *)

\* Category names of the digests the component is given, and those
\* digests: the page's, one with two names in its first bucket, and one with
\* three buckets.
AppCategories == Categories \cup {"SG"}
AppDigestBodies ==
  DigestBodies \cup { JDigest(<<<<"ID", "US">>, <<"SG">>>>),
                      JDigest(<<<<"SG">>, <<"ID">>, <<"US">>>>) }

\* How its request can end: fetch is called without a signal, so the
\* transport fails or a response arrives.
AppOutcomes ==
  {o \in FailureOutcomes : o.kind # "abort"}
    \cup {Responded(TRUE, "200", "OK", Body(j)) : j \in AppDigestBodies}

\* Every variable but app.
NotApp ==
  <<mounted, availableDates, loadingDates, datesError, digest, loadingDigest,
    digestError, currentDate, activeTab, digestCache, direction, renderPending,
    datesInFlight, digestInFlight, requested, last, datesReading,
    digestReading, route, variant>>

\* The history entry of a step of the component.
AppEvent(op, name, outcome) == [op |-> op, name |-> name, outcome |-> outcome]

\* expandedCategories[name], undefined counting as false.
AppExpanded(flags, name) == name \in DOMAIN flags /\ flags[name]

\* { ...flags, [name]: value }, and flags[name] = value.
AppWithFlag(flags, name, value) ==
  [k \in DOMAIN flags \cup {name} |-> IF k = name THEN value ELSE flags[k]]

\* The property name of array index i.
IndexKey(i) == <<"0", "1", "2", "3", "4", "5", "6", "7", "8", "9">>[i + 1]

\* Object.keys(a) of an array a: its indices, as strings.
ObjectKeysOfArray(a) == [i \in 1..Len(a) |-> IndexKey(i - 1)]

\* The try block of fetchDigest: what it throws, or the data it goes on
\* with.
AppTryFetch(o) ==
  IF o.kind # "response" THEN [threw |-> TRUE, err |-> o.rejection, data |-> JNull]
  ELSE IF ~o.ok
    THEN [threw |-> TRUE,
          err |-> ErrorObj("Error", <<"Failed", "to", "fetch", "digest:",
                                      o.status, o.statusText>>),
          data |-> JNull]
  ELSE IF ~o.body.parses
    THEN [threw |-> TRUE, err |-> ErrorObj("SyntaxError", JsonSyntaxMessage),
          data |-> JNull]
  ELSE [threw |-> FALSE, err |-> AbortReason, data |-> o.body.json]

\* "Auto-expand the first category": data[0] is the array of buckets, and
\* Object.keys(data[0])[0] is the first of its keys.
AppAutoExpand(flags, data) ==
  IF Truthy(data) /\ data.kind = "digest"
  THEN LET keys == ObjectKeysOfArray(data.buckets)
       IN IF Len(keys) > 0 /\ keys[1] # ""
          THEN AppWithFlag(flags, keys[1], TRUE)
          ELSE flags
  ELSE flags

\* fetchDigest up to its await.
AppFetchDigest(a) ==
  [a EXCEPT !.loading = TRUE, !.error = Null, !.inFlight = @ + 1]

\* onMounted(() => { fetchDigest() })
AppMount ==
  /\ ~app.mounted
  /\ app' = [AppFetchDigest(app) EXCEPT !.mounted = TRUE,
                                        !.last = AppEvent("mount", "", NoOutcome)]
  /\ UNCHANGED NotApp

\* "Try Again", rendered when loading is false and error is set.
AppRetry ==
  /\ app.mounted
  /\ ~app.loading
  /\ app.error # Null
  /\ app' = [AppFetchDigest(app) EXCEPT !.last = AppEvent("retry", "", NoOutcome)]
  /\ UNCHANGED NotApp

\* The continuation of fetchDigest after its awaits.
AppFetched(o) ==
  /\ app.inFlight > 0
  /\ LET r == AppTryFetch(o)
         done == [app EXCEPT !.loading = FALSE,
                             !.inFlight = @ - 1,
                             !.last = AppEvent("fetched", "", o)]
     IN app' =
          IF r.threw
          THEN [done EXCEPT !.error = LoadFailedMessage(r.err.message)]
          ELSE [done EXCEPT !.digest = r.data,
                            !.expandedCategories = AppAutoExpand(@, r.data)]
  /\ UNCHANGED NotApp

\* The content is rendered: v-else-if="digest && digest.length > 0" after
\* the loading and error branches.
AppContentShown ==
  /\ app.mounted
  /\ ~app.loading
  /\ app.error = Null
  /\ app.digest.kind = "digest"

\* toggleCategory(categoryName), from the button of a category shown.
toggleCategory(categoryName) ==
  /\ AppContentShown
  /\ IndexOf(getAvailableCountries(app.digest), categoryName) # 0
  /\ app' = [app EXCEPT
               !.expandedCategories =
                 AppWithFlag(@, categoryName, ~AppExpanded(@, categoryName)),
               !.last = AppEvent("toggleCategory", categoryName, NoOutcome)]
  /\ UNCHANGED NotApp

AppNext ==
  \/ AppMount
  \/ AppRetry
  \/ \E o \in AppOutcomes : AppFetched(o)
  \/ \E name \in AppCategories : toggleCategory(name)

AppSpec == Init /\ [][AppNext]_vars

\* The step is the continuation of a fetch that succeeded with a digest of
\* at least one category.
AppDigestArrives ==
  /\ app' # app
  /\ app'.last.op = "fetched"
  /\ IsSuccess(app'.last.outcome)
  /\ Len(getAvailableCountries(app'.digest)) > 0

\* The step is toggleCategory(app'.last.name).
AppToggles == app' # app /\ app'.last.op = "toggleCategory"

\* Every name but name keeps its flag, set or not.
AppOthersKept(name) ==
  \A m \in (DOMAIN app.expandedCategories \cup DOMAIN app'.expandedCategories)
             \ {name} :
    /\ m \in DOMAIN app.expandedCategories
    /\ m \in DOMAIN app'.expandedCategories
    /\ app'.expandedCategories[m] = app.expandedCategories[m]

\* toggleCategory(name) flips the flag of name and keeps every other flag.
C22_ToggleFlipsOne ==
  [][AppToggles =>
       /\ AppExpanded(app'.expandedCategories, app'.last.name)
            = ~AppExpanded(app.expandedCategories, app'.last.name)
       /\ AppOthersKept(app'.last.name)]_vars

\* C22: after a fetch succeeds with a digest of at least one category, the
\* first category shown is marked expanded, and toggleCategory(name) flips
\* the flag of name only.
C22_FirstCategoryExpanded ==
  [][/\ AppDigestArrives =>
          AppExpanded(app'.expandedCategories,
                      getAvailableCountries(app'.digest)[1])
     /\ AppToggles =>
          /\ AppExpanded(app'.expandedCategories, app'.last.name)
               = ~AppExpanded(app.expandedCategories, app'.last.name)
          /\ AppOthersKept(app'.last.name)]_vars

====
